---- MODULE Spec2Model ----
(***************************************************************************)
(* Model of the PredictiveSankeyDiagram component: the drawing effect      *)
(* (layout, ribbons, node rectangles, legend), the colour scale and the    *)
(* pointer / click handlers that the effect registers; and of the          *)
(* prediction hooks (usePrediction, useBatchPrediction) and of the list of *)
(* recent predictions that App keeps.                                      *)
(*                                                                         *)
(* JavaScript numbers are modelled as exact rationals [n, d] in lowest     *)
(* terms; risk scores are stored in thousandths, opacities in hundredths.  *)
(***************************************************************************)
EXTENDS Integers, Sequences, FiniteSets, TLC

VARIABLES
    nodes,           \* the node dataset, in input order
    links,           \* the link dataset, in input order
    hoveredNode,     \* React state hoveredNode
    selectedNode,    \* React state selectedNode
    closureSelected, \* the selectedNode value captured by the handlers of the last draw
    drawn,           \* TRUE once the effect has run after mount
    rects,           \* node rectangles, one per node in input order
    paths,           \* ribbons, one per link in input order
    legendRects,     \* the legend swatches
    canvas,          \* the width and height of the svg
    error,           \* the error the effect has thrown, if any
    emitted,         \* the selections passed to a callback of the surrounding UI
    lastEvent,       \* the last event or effect processed, and hoveredNode before it
    loading,         \* usePrediction: React state loading
    predictError,    \* usePrediction: React state error
    result,          \* usePrediction: React state result
    calls,           \* usePrediction: the calls of predict, in call order
    wasReset,        \* usePrediction: TRUE once reset has been called
    batchLoading,    \* useBatchPrediction: React state loading
    batchError,      \* useBatchPrediction: React state error
    results,         \* useBatchPrediction: React state results
    animalDataArray, \* predictBatch: its argument
    predictions,     \* predictBatch: the local array predictions
    requests,        \* predictBatch: the request bodies sent, in order
    responses,       \* predictBatch: the responses received, in order
    batchCall,       \* predictBatch: "idle", "awaiting" a response, or "returned"
    batchReturned,   \* predictBatch: the value the call returned
    recentPredictions, \* App: React state recentPredictions
    completed        \* App: the number of calls of handlePredictionComplete

diagramVars == <<nodes, links, hoveredNode, selectedNode, closureSelected, drawn,
                 rects, paths, legendRects, canvas, error, emitted, lastEvent>>

predictVars == <<loading, predictError, result, calls, wasReset>>

batchVars == <<batchLoading, batchError, results, animalDataArray, predictions,
               requests, responses, batchCall, batchReturned>>

recentVars == <<recentPredictions, completed>>

hookVars == <<predictVars, batchVars, recentVars>>

vars == <<diagramVars, hookVars>>

(***************************************************************************)
(* Bounds                                                                  *)
(***************************************************************************)
NumNodes == 4      \* the models use the first NumNodes nodes of the dataset
NumLinks == 2      \* the interaction model uses the first NumLinks links among them
MaxLinks == 2      \* longest link sequence of the ribbon datasets
MaxNodes == 4      \* longest node sequence of the layout datasets
CanvasSlack == 5   \* the canvas datasets lie within CanvasSlack of the margins
SmallValue == 8    \* the ribbon datasets carry the values 1 .. SmallValue
MaxTens == 10      \* and the round values 10, 20, ..., 10 * MaxTens
ScoreBelow == 200  \* the colour datasets reach ScoreBelow thousandths below 0
ScoreMax == 1200   \* largest risk score (thousandths) of the colour datasets
MaxCalls == 2      \* calls of predict on one usePrediction instance
MaxConfidence == 3 \* prediction bodies carry the confidences 1 .. MaxConfidence
MaxAnimal == 2     \* the batch inputs are made of MaxAnimal different animals
MaxBatch == 2      \* longest batch input
MaxCompleted == 6  \* predictions reported to App

(***************************************************************************)
(* Program constants                                                       *)
(***************************************************************************)
None == -1          \* null
NoAttr == -2        \* an attribute that was never set
width == 1500
height == 800
marginTop == 80
marginRight == 200
marginBottom == 80
marginLeft == 150
nodeHeight == 45
nodeGap == 15
nodeWidth == 130
ctrlOffset == 40
minThickness == 2
maxThickness == 25
OpacityNodeDefault == 85
OpacityNodeDim == 30
OpacityNodeFull == 100
OpacityLinkDefault == 25
OpacityLinkHover == 60

NoError == "none"
TypeError == "TypeError"

VeryHigh == "#dc2626"
High == "#f97316"
Medium == "#eab308"
Low == "#22c55e"
VeryLow == "#16a34a"

(***************************************************************************)
(* Exact arithmetic                                                        *)
(***************************************************************************)
Abs(x) == IF x < 0 THEN -x ELSE x

RECURSIVE GCD(_, _)
GCD(a, b) == IF b = 0 THEN a ELSE GCD(b, a % b)

Rat(n, d) ==
    LET g == GCD(Abs(n), Abs(d))
        s == IF d < 0 THEN -1 ELSE 1
    IN  [n |-> s * (n \div g), d |-> s * (d \div g)]

RInt(i) == [n |-> i, d |-> 1]
RAdd(a, b) == Rat(a.n * b.d + b.n * a.d, a.d * b.d)
RSub(a, b) == Rat(a.n * b.d - b.n * a.d, a.d * b.d)
RMul(a, b) == Rat(a.n * b.n, a.d * b.d)
RDiv(a, b) == Rat(a.n * b.d, a.d * b.n)
RGt(a, b) == a.n * b.d > b.n * a.d
RGe(a, b) == a.n * b.d >= b.n * a.d
RMax(a, b) == IF RGt(b, a) THEN b ELSE a

SetMax(S) == CHOOSE m \in S : \A x \in S : x <= m

(***************************************************************************)
(* The dataset of the component                                            *)
(***************************************************************************)
N(id, layer, score) == [id |-> id, layer |-> layer, riskScore |-> score]
L(s, t, v) == [source |-> s, target |-> t, value |-> v]

CodeNodes ==
    << N(0, 0, 321), N(1, 0, 293), N(2, 0, 264),
       N(3, 1, 592), N(4, 1, 324), N(5, 1, 309),
       N(6, 2, 282), N(7, 2, 136), N(8, 2, 114),
       N(9, 3, 540), N(10, 3, 65), N(11, 3, 180),
       N(12, 4, 850), N(13, 4, 550), N(14, 4, 250) >>

CodeLinks ==
    << L(0, 3, 10), L(0, 4, 80), L(0, 5, 120),
       L(1, 3, 120), L(1, 4, 50), L(1, 5, 80),
       L(2, 3, 15), L(2, 4, 220), L(2, 5, 600),
       L(3, 6, 100), L(3, 7, 20), L(3, 8, 5),
       L(4, 6, 150), L(4, 7, 120), L(4, 8, 80),
       L(5, 6, 400), L(5, 7, 250), L(5, 8, 50),
       L(6, 9, 600), L(6, 10, 300), L(6, 11, 50),
       L(7, 9, 200), L(7, 10, 150), L(7, 11, 20),
       L(8, 9, 30), L(8, 10, 100), L(8, 11, 5),
       L(9, 12, 450), L(9, 13, 320), L(9, 14, 60),
       L(10, 12, 50), L(10, 13, 280), L(10, 14, 220),
       L(11, 12, 30), L(11, 13, 120), L(11, 14, 65) >>

legendData == << VeryHigh, High, Medium, Low, VeryLow >>

\* The first NumNodes nodes of the dataset and the links among them.
SmallNodes == SubSeq(CodeNodes, 1, NumNodes)
LinksAmong ==
    SelectSeq(CodeLinks, LAMBDA l : l.source < NumNodes /\ l.target < NumNodes)
SmallLinks == SubSeq(LinksAmong, 1, NumLinks)

\* The link values of the ribbon datasets.
LinkValues == (1 .. SmallValue) \cup {10 * k : k \in 1 .. MaxTens}

(***************************************************************************)
(* Colour scale                                                            *)
(***************************************************************************)
\* Variant: the top band includes its lower boundary.
getRiskColorInclusive(score) ==
    IF RGe(score, Rat(7, 10)) THEN VeryHigh
    ELSE IF RGe(score, Rat(5, 10)) THEN High
    ELSE IF RGe(score, Rat(3, 10)) THEN Medium
    ELSE IF RGe(score, Rat(15, 100)) THEN Low
    ELSE VeryLow

getRiskColor(score) ==
    IF RGt(score, Rat(7, 10)) THEN VeryHigh
    ELSE IF RGt(score, Rat(5, 10)) THEN High
    ELSE IF RGt(score, Rat(3, 10)) THEN Medium
    ELSE IF RGt(score, Rat(15, 100)) THEN Low
    ELSE VeryLow

riskScoreOf(node) == Rat(node.riskScore, 1000)

(***************************************************************************)
(* Layout                                                                  *)
(***************************************************************************)
layerIndices == 0 .. 4

\* Variant: nodes are put at the front of their bucket.
layersUnshift(ns) ==
    [l \in layerIndices |->
        LET b == SelectSeq(ns, LAMBDA n : n.layer = l)
        IN  [k \in 1 .. Len(b) |-> b[Len(b) + 1 - k]]]

layers(ns) == [l \in layerIndices |-> SelectSeq(ns, LAMBDA n : n.layer = l)]

layerWidth == RDiv(RInt(canvas.width - marginLeft - marginRight), RInt(4))

layerHeight == canvas.height - marginTop - marginBottom

totalHeight(layer) == Len(layer) * (nodeHeight + nodeGap)

startY(layer) ==
    RAdd(RInt(marginTop), RDiv(RInt(layerHeight - totalHeight(layer)), RInt(2)))

\* Variant: nodes are stacked by the gap alone.
positionAtGapOnly(ns, layerIndex, nodeIndex) ==
    LET layer == layers(ns)[layerIndex]
    IN  [x |-> RAdd(RInt(marginLeft), RMul(RInt(layerIndex), layerWidth)),
         y |-> RAdd(startY(layer), RInt(nodeIndex * nodeGap)),
         width |-> RInt(nodeWidth),
         height |-> RInt(nodeHeight),
         riskScore |-> riskScoreOf(layer[nodeIndex + 1])]

\* The position assigned to the node at (0-based) nodeIndex of layer layerIndex.
positionAt(ns, layerIndex, nodeIndex) ==
    LET layer == layers(ns)[layerIndex]
    IN  [x |-> RAdd(RInt(marginLeft), RMul(RInt(layerIndex), layerWidth)),
         y |-> RAdd(startY(layer), RInt(nodeIndex * (nodeHeight + nodeGap))),
         width |-> RInt(nodeWidth),
         height |-> RInt(nodeHeight),
         riskScore |-> riskScoreOf(layer[nodeIndex + 1])]

\* nodePositions[id]: layers are visited in order, so the last write wins.
nodePositions(ns) ==
    [id \in {ns[i].id : i \in DOMAIN ns} |->
        LET ls == {l \in layerIndices :
                      \E k \in DOMAIN layers(ns)[l] : layers(ns)[l][k].id = id}
            l == SetMax(ls)
            ks == {k \in DOMAIN layers(ns)[l] : layers(ns)[l][k].id = id}
        IN  positionAt(ns, l, SetMax(ks) - 1)]

(***************************************************************************)
(* Ribbons                                                                 *)
(***************************************************************************)
\* Variant: normalises by the first link instead of the largest.
maxValueFirst(ls) == ls[1].value

maxValue(ls) == SetMax({ls[i].value : i \in DOMAIN ls})

\* Variant: no minimum thickness.
linkHeightUnclamped(link, ls) ==
    RMul(RDiv(RInt(link.value), RInt(maxValue(ls))), RInt(maxThickness))

\* Variant: the ratio is inverted.
linkHeightInverted(link, ls) ==
    RMax(RInt(minThickness),
         RMul(RDiv(RInt(maxValue(ls)), RInt(link.value)), RInt(maxThickness)))

linkHeight(link, ls) ==
    RMax(RInt(minThickness),
         RMul(RDiv(RInt(link.value), RInt(maxValue(ls))), RInt(maxThickness)))

half(r) == RDiv(r, RInt(2))

\* The d3.path() of one link: moveTo, bezierCurveTo, lineTo, bezierCurveTo, closePath.
ribbonPath(link, ns, ls) ==
    LET source == nodePositions(ns)[link.source]
        target == nodePositions(ns)[link.target]
        lh == linkHeight(link, ls)
        sx == RAdd(source.x, source.width)
        sy == RAdd(source.y, half(source.height))
        tx == target.x
        ty == RAdd(target.y, half(target.height))
    IN  << [op |-> "M", x |-> sx, y |-> sy],
           [op |-> "C",
            x1 |-> RAdd(sx, RInt(ctrlOffset)), y1 |-> sy,
            x2 |-> RSub(tx, RInt(ctrlOffset)), y2 |-> ty,
            x |-> tx, y |-> ty],
           [op |-> "L", x |-> tx, y |-> RSub(ty, half(lh))],
           [op |-> "C",
            x1 |-> RSub(tx, RInt(ctrlOffset)), y1 |-> RSub(ty, half(lh)),
            x2 |-> RAdd(sx, RInt(ctrlOffset)), y2 |-> RSub(sy, half(lh)),
            x |-> sx, y |-> RSub(sy, half(lh))],
           [op |-> "Z"] >>

avgScore(link, ns) ==
    RDiv(RAdd(riskScoreOf(ns[link.source + 1]), riskScoreOf(ns[link.target + 1])),
         RInt(2))

\* One appended <path>: its outline, fill and initial opacity.
drawLink(link, ns, ls) ==
    [d |-> ribbonPath(link, ns, ls),
     fill |-> getRiskColor(avgScore(link, ns)),
     opacity |-> OpacityLinkDefault]

\* Variant: the selected node is drawn wider.
drawNodeSelectedWider(node, ns) ==
    LET pos == nodePositions(ns)[node.id]
    IN  [x |-> pos.x, y |-> pos.y,
         width |-> IF node.id = selectedNode THEN RAdd(pos.width, RInt(10)) ELSE pos.width,
         height |-> pos.height,
         fill |-> getRiskColor(riskScoreOf(node)),
         opacity |-> OpacityNodeDefault]

\* One appended node <g> with its <rect>.
drawNode(node, ns) ==
    LET pos == nodePositions(ns)[node.id]
    IN  [x |-> pos.x, y |-> pos.y, width |-> pos.width, height |-> pos.height,
         fill |-> getRiskColor(riskScoreOf(node)),
         opacity |-> OpacityNodeDefault]

drawLegend == [i \in DOMAIN legendData |-> [fill |-> legendData[i], opacity |-> NoAttr]]

(***************************************************************************)
(* The effect: clears the svg and draws everything again.  It runs after   *)
(* mount and after every render in which selectedNode differs from the     *)
(* value of the previous run; the handlers it registers close over the     *)
(* selectedNode of that render.                                            *)
(***************************************************************************)
\* layers[node.layer].push(node) throws when the layer has no bucket.
layerThrows(ns) == \E i \in DOMAIN ns : ns[i].layer \notin layerIndices

\* Building the ribbon throws when nodePositions has no entry for an endpoint
\* id (source.x, target.x) or nodes has no element at an endpoint index
\* (nodes[link.source].riskScore); both happen before the path is appended.
linkThrows(link, ns) ==
    \/ link.source \notin {ns[i].id : i \in DOMAIN ns}
    \/ link.target \notin {ns[i].id : i \in DOMAIN ns}
    \/ link.source + 1 \notin DOMAIN ns
    \/ link.target + 1 \notin DOMAIN ns

\* The number of links whose path is appended before the effect ends or throws.
appendedLinks(ns, ls) ==
    IF layerThrows(ns) THEN 0
    ELSE LET bad == {j \in DOMAIN ls : linkThrows(ls[j], ns)}
         IN  IF bad = {} THEN Len(ls)
             ELSE (CHOOSE j \in bad : \A k \in bad : j <= k) - 1

\* Variant: maxValue is reduced over the links before the loop, without an
\* initial value.
drawErrorReduce(ns, ls) ==
    IF ls = << >> \/ layerThrows(ns) \/ \E j \in DOMAIN ls : linkThrows(ls[j], ns)
    THEN TypeError
    ELSE NoError

\* Variant: a link that cannot be resolved ends the loop silently.
drawErrorSilent(ns, ls) ==
    IF layerThrows(ns) THEN TypeError ELSE NoError

drawError(ns, ls) ==
    IF layerThrows(ns) \/ \E j \in DOMAIN ls : linkThrows(ls[j], ns)
    THEN TypeError
    ELSE NoError

\* An uncaught error of the effect ends the component: nothing is drawn after
\* the statement that threw and no handler is registered.
Draw ==
    /\ error = NoError
    /\ ~drawn \/ selectedNode # closureSelected
    /\ error' = drawError(nodes, links)
    /\ drawn' = (drawError(nodes, links) = NoError)
    /\ paths' = [j \in 1 .. appendedLinks(nodes, links) |->
                    drawLink(links[j], nodes, links)]
    /\ rects' = IF drawError(nodes, links) = NoError
                THEN [i \in DOMAIN nodes |-> drawNode(nodes[i], nodes)]
                ELSE << >>
    /\ legendRects' = IF drawError(nodes, links) = NoError THEN drawLegend ELSE << >>
    /\ closureSelected' = selectedNode
    /\ lastEvent' = [type |-> "draw", target |-> None, hoveredBefore |-> hoveredNode]
    /\ UNCHANGED <<hookVars, nodes, links, canvas, emitted, hoveredNode, selectedNode>>

(***************************************************************************)
(* Node handlers                                                           *)
(***************************************************************************)
setOpacity(rs, o) == [k \in DOMAIN rs |-> [rs[k] EXCEPT !.opacity = o]]

\* Variant: only the entered rectangle is touched.
NodeMouseEnterLocal(i) ==
    /\ drawn
    /\ rects' = [rects EXCEPT ![i].opacity = OpacityNodeFull]
    /\ legendRects' = legendRects
    /\ hoveredNode' = nodes[i].id
    /\ lastEvent' = [type |-> "mouseenter", target |-> i, hoveredBefore |-> hoveredNode]
    /\ UNCHANGED <<hookVars, nodes, links, canvas, error, emitted, selectedNode, closureSelected, drawn, paths>>

NodeMouseEnter(i) ==
    /\ drawn
    /\ rects' = [setOpacity(rects, OpacityNodeDim) EXCEPT ![i].opacity = OpacityNodeFull]
    /\ legendRects' = setOpacity(legendRects, OpacityNodeDim)
    /\ hoveredNode' = nodes[i].id
    /\ lastEvent' = [type |-> "mouseenter", target |-> i, hoveredBefore |-> hoveredNode]
    /\ UNCHANGED <<hookVars, nodes, links, canvas, error, emitted, selectedNode, closureSelected, drawn, paths>>

\* Variant: only the left rectangle is restored.
NodeMouseLeaveLocal(i) ==
    /\ drawn
    /\ rects' = [rects EXCEPT ![i].opacity = OpacityNodeDefault]
    /\ legendRects' = legendRects
    /\ hoveredNode' = None
    /\ lastEvent' = [type |-> "mouseleave", target |-> i, hoveredBefore |-> hoveredNode]
    /\ UNCHANGED <<hookVars, nodes, links, canvas, error, emitted, selectedNode, closureSelected, drawn, paths>>

NodeMouseLeave(i) ==
    /\ drawn
    /\ rects' = setOpacity(rects, OpacityNodeDefault)
    /\ legendRects' = setOpacity(legendRects, OpacityNodeDefault)
    /\ hoveredNode' = None
    /\ lastEvent' = [type |-> "mouseleave", target |-> i, hoveredBefore |-> hoveredNode]
    /\ UNCHANGED <<hookVars, nodes, links, canvas, error, emitted, selectedNode, closureSelected, drawn, paths>>

NodeClick(i) ==
    /\ drawn
    /\ selectedNode' = IF closureSelected = nodes[i].id THEN None ELSE nodes[i].id
    /\ lastEvent' = [type |-> "click", target |-> i, hoveredBefore |-> hoveredNode]
    /\ UNCHANGED <<hookVars, nodes, links, canvas, error, emitted, hoveredNode, closureSelected, drawn, rects, paths,
                   legendRects>>

(***************************************************************************)
(* Ribbon handlers                                                         *)
(***************************************************************************)
\* Variant: ribbon emphasis is global, like node emphasis.
LinkMouseEnterGlobal(j) ==
    /\ drawn
    /\ paths' = [setOpacity(paths, OpacityLinkDefault) EXCEPT ![j].opacity = OpacityLinkHover]
    /\ lastEvent' = [type |-> "linkenter", target |-> j, hoveredBefore |-> hoveredNode]
    /\ UNCHANGED <<hookVars, nodes, links, canvas, error, emitted, hoveredNode, selectedNode, closureSelected, drawn,
                   rects, legendRects>>

LinkMouseEnter(j) ==
    /\ drawn
    /\ paths' = [paths EXCEPT ![j].opacity = OpacityLinkHover]
    /\ lastEvent' = [type |-> "linkenter", target |-> j, hoveredBefore |-> hoveredNode]
    /\ UNCHANGED <<hookVars, nodes, links, canvas, error, emitted, hoveredNode, selectedNode, closureSelected, drawn,
                   rects, legendRects>>

LinkMouseLeave(j) ==
    /\ drawn
    /\ paths' = [paths EXCEPT ![j].opacity = OpacityLinkDefault]
    /\ lastEvent' = [type |-> "linkleave", target |-> j, hoveredBefore |-> hoveredNode]
    /\ UNCHANGED <<hookVars, nodes, links, canvas, error, emitted, hoveredNode, selectedNode, closureSelected, drawn,
                   rects, legendRects>>

(***************************************************************************)
(* JavaScript values of the prediction hooks                               *)
(*                                                                         *)
(* A value is a record whose type field names its JavaScript type; the     *)
(* fields of an object are the other fields of the record.                 *)
(***************************************************************************)
JsNull == [type |-> "null"]
JsUndefined == [type |-> "undefined"]
JsString(s) == [type |-> "string", value |-> s]
JsArray(items) == [type |-> "array", items |-> items]

\* !v for the values above: null is the only falsy one.
falsy(v) == v.type \in {"null", "undefined"}

\* typeof v: null and arrays are objects.
typeof(v) == IF v.type \in {"null", "array"} THEN "object" ELSE v.type

isArray(v) == v.type = "array"

\* The request body built by the callers of predict.
Animal(n) == [type |-> "object", population_size |-> n]

\* The body of a successful prediction response.
Prediction(k) == [type |-> "object", confidence |-> k]

InvalidInputMessage == "Invalid animal data"
HttpMessage == "HTTP error! status: 500"
ServerMessage == "Model not loaded"
FetchFailedMessage == "Failed to fetch"
BatchInputMessage == "Input must be an array of animal data objects"
BatchItemMessage == "Prediction failed for animal"
ParseMessage == "Unexpected token < in JSON at position 0"

\* A response body that is not JSON: response.json() rejects.
Unparsable == [type |-> "unparsable"]

\* What an awaited fetch can produce: a response with an OK status and a
\* prediction body, a response with an error status whose body carries an
\* error text or none, a response of either status whose body is not JSON,
\* or a rejection (the network failed).
NoResponse == [fetch |-> "none", ok |-> FALSE, status |-> 0, body |-> JsNull]

Responses ==
    {[fetch |-> "resolved", ok |-> TRUE, status |-> 200, body |-> Prediction(k)] :
        k \in 1 .. MaxConfidence}
    \cup {[fetch |-> "resolved", ok |-> FALSE, status |-> 500,
           body |-> [type |-> "object", error |-> ServerMessage]],
          [fetch |-> "resolved", ok |-> FALSE, status |-> 500,
           body |-> [type |-> "object"]],
          [fetch |-> "resolved", ok |-> FALSE, status |-> 500, body |-> Unparsable],
          [fetch |-> "resolved", ok |-> TRUE, status |-> 200, body |-> Unparsable],
          [fetch |-> "rejected", ok |-> FALSE, status |-> 0, body |-> JsNull]}

\* The request was answered with an OK status and a body that parses.
succeeded(response) ==
    response.fetch = "resolved" /\ response.ok /\ response.body # Unparsable

(***************************************************************************)
(* usePrediction                                                           *)
(***************************************************************************)
\* Variant: only the typeof test guards the request.
validAnimalDataTypeof(animalData) == typeof(animalData) = "object"

validAnimalData(animalData) ==
    ~(falsy(animalData) \/ typeof(animalData) # "object")

PredictInputs == {JsNull, JsString("tiger"), Animal(1)}

\* The message of the error that reaches the catch block of predict.
errorMessage(response) ==
    IF response.fetch = "rejected" THEN FetchFailedMessage
    ELSE IF response.body = Unparsable THEN ParseMessage
    ELSE IF "error" \in DOMAIN response.body THEN response.body.error
    ELSE HttpMessage

\* predict(animalData) up to its first await.  Invalid data throws before
\* any await, so the catch block runs within the same step.
predict(animalData) ==
    /\ Len(calls) < MaxCalls
    /\ IF validAnimalData(animalData)
       THEN /\ loading' = TRUE
            /\ predictError' = JsNull
            /\ result' = JsNull
            /\ calls' = Append(calls, [animalData |-> animalData, pending |-> TRUE,
                                       sent |-> TRUE, response |-> NoResponse,
                                       returned |-> JsUndefined, message |-> JsNull])
       ELSE /\ loading' = FALSE
            /\ predictError' = JsString(InvalidInputMessage)
            /\ result' = JsNull
            /\ calls' = Append(calls, [animalData |-> animalData, pending |-> FALSE,
                                       sent |-> FALSE, response |-> NoResponse,
                                       returned |-> JsNull,
                                       message |-> JsString(InvalidInputMessage)])
    /\ UNCHANGED <<wasReset, batchVars, recentVars, diagramVars>>

\* The continuation of call k once its fetch has settled with response.
respond(k, response) ==
    /\ calls[k].pending
    /\ IF succeeded(response)
       THEN /\ result' = response.body
            /\ loading' = FALSE
            /\ predictError' = predictError
            /\ calls' = [calls EXCEPT ![k].pending = FALSE, ![k].response = response,
                                      ![k].returned = response.body]
       ELSE /\ predictError' = JsString(errorMessage(response))
            /\ loading' = FALSE
            /\ result' = result
            /\ calls' = [calls EXCEPT ![k].pending = FALSE, ![k].response = response,
                                      ![k].returned = JsNull,
                                      ![k].message = JsString(errorMessage(response))]
    /\ UNCHANGED <<wasReset, batchVars, recentVars, diagramVars>>

reset ==
    /\ loading' = FALSE
    /\ predictError' = JsNull
    /\ result' = JsNull
    /\ wasReset' = TRUE
    /\ UNCHANGED <<calls, batchVars, recentVars, diagramVars>>

(***************************************************************************)
(* useBatchPrediction                                                      *)
(***************************************************************************)
\* { ...animalData, [field]: value }
spread(animalData, field, value) ==
    [f \in (DOMAIN animalData) \cup {field} |->
        IF f = field THEN value ELSE animalData[f]]

\* The entry pushed for animalData once its fetch has settled.
entryOf(animalData, response) ==
    IF succeeded(response)
    THEN spread(animalData, "prediction", response.body)
    ELSE spread(animalData, "error",
                JsString(IF response.fetch = "rejected" THEN FetchFailedMessage
                         ELSE IF ~response.ok THEN BatchItemMessage
                         ELSE ParseMessage))

RECURSIVE SeqsUpTo(_, _)
SeqsUpTo(S, n) ==
    IF n = 0 THEN {<< >>}
    ELSE LET shorter == SeqsUpTo(S, n - 1)
         IN  shorter \cup {Append(s, x) : s \in {t \in shorter : Len(t) = n - 1}, x \in S}

Animals == {Animal(n) : n \in 1 .. MaxAnimal}

BatchInputs ==
    {JsArray(items) : items \in SeqsUpTo(Animals, MaxBatch)} \cup {JsNull, Animal(1)}

\* predictBatch(animalDataArray) up to its first await: a non-array throws
\* to the outer catch, an empty array runs to the end of the function.
predictBatch(input) ==
    /\ batchCall = "idle"
    /\ animalDataArray' = input
    /\ batchError' = IF isArray(input) THEN JsNull ELSE JsString(BatchInputMessage)
    /\ results' = << >>
    /\ predictions' = << >>
    /\ responses' = << >>
    /\ IF isArray(input) /\ input.items # << >>
       THEN /\ batchLoading' = TRUE
            /\ requests' = <<input.items[1]>>
            /\ batchCall' = "awaiting"
            /\ batchReturned' = JsUndefined
       ELSE /\ batchLoading' = FALSE
            /\ requests' = << >>
            /\ batchCall' = "returned"
            /\ batchReturned' = IF isArray(input) THEN JsArray(<< >>) ELSE JsNull
    /\ UNCHANGED <<predictVars, recentVars, diagramVars>>

\* Variant: no inner try, the failure of an item reaches the outer catch.
batchRespondAbort(response) ==
    /\ batchCall = "awaiting"
    /\ responses' = Append(responses, response)
    /\ IF ~succeeded(response)
       THEN /\ batchError' = JsString(BatchItemMessage)
            /\ batchLoading' = FALSE
            /\ batchCall' = "returned"
            /\ batchReturned' = JsNull
            /\ UNCHANGED <<predictions, results, requests>>
       ELSE LET i == Len(predictions) + 1
                pushed == Append(predictions, entryOf(animalDataArray.items[i], response))
            IN  /\ predictions' = pushed
                /\ IF i < Len(animalDataArray.items)
                   THEN /\ requests' = Append(requests, animalDataArray.items[i + 1])
                        /\ UNCHANGED <<batchLoading, results, batchCall, batchReturned>>
                   ELSE /\ results' = pushed
                        /\ batchLoading' = FALSE
                        /\ batchCall' = "returned"
                        /\ batchReturned' = JsArray(pushed)
                        /\ requests' = requests
                /\ batchError' = batchError
    /\ UNCHANGED <<animalDataArray, predictVars, recentVars, diagramVars>>

\* The continuation of the loop once the fetch of the current item has
\* settled: push its entry, then send the next request or finish.
batchRespond(response) ==
    /\ batchCall = "awaiting"
    /\ responses' = Append(responses, response)
    /\ LET i == Len(predictions) + 1
           pushed == Append(predictions, entryOf(animalDataArray.items[i], response))
       IN  /\ predictions' = pushed
           /\ IF i < Len(animalDataArray.items)
              THEN /\ requests' = Append(requests, animalDataArray.items[i + 1])
                   /\ UNCHANGED <<batchLoading, results, batchCall, batchReturned>>
              ELSE /\ results' = pushed
                   /\ batchLoading' = FALSE
                   /\ batchCall' = "returned"
                   /\ batchReturned' = JsArray(pushed)
                   /\ requests' = requests
    /\ UNCHANGED <<animalDataArray, batchError, predictVars, recentVars, diagramVars>>

(***************************************************************************)
(* App: the list of recent predictions                                     *)
(***************************************************************************)
\* prev.slice(0, end)
slice(prev, end) == SubSeq(prev, 1, IF Len(prev) < end THEN Len(prev) ELSE end)

\* Variant: the slice keeps five previous entries.
handlePredictionCompleteKeepFive(prediction) ==
    /\ completed < MaxCompleted
    /\ recentPredictions' = <<prediction>> \o slice(recentPredictions, 5)
    /\ completed' = completed + 1
    /\ UNCHANGED <<predictVars, batchVars, diagramVars>>

handlePredictionComplete(prediction) ==
    /\ completed < MaxCompleted
    /\ recentPredictions' = <<prediction>> \o slice(recentPredictions, 4)
    /\ completed' = completed + 1
    /\ UNCHANGED <<predictVars, batchVars, diagramVars>>

\* The state of the hooks and of App before any call.
HooksIdle ==
    /\ loading = FALSE
    /\ predictError = JsNull
    /\ result = JsNull
    /\ calls = << >>
    /\ wasReset = FALSE
    /\ batchLoading = FALSE
    /\ batchError = JsNull
    /\ results = << >>
    /\ animalDataArray = JsUndefined
    /\ predictions = << >>
    /\ requests = << >>
    /\ responses = << >>
    /\ batchCall = "idle"
    /\ batchReturned = JsUndefined
    /\ recentPredictions = << >>
    /\ completed = 0

(***************************************************************************)
(* Specifications                                                          *)
(***************************************************************************)
Mounted ==
    /\ hoveredNode = None
    /\ selectedNode = None
    /\ closureSelected = None
    /\ drawn = FALSE
    /\ rects = << >>
    /\ paths = << >>
    /\ legendRects = << >>
    /\ error = NoError
    /\ emitted = << >>
    /\ lastEvent = [type |-> "mount", target |-> None, hoveredBefore |-> None]
    /\ HooksIdle

\* The interaction state machine over the component's dataset.
CodeCanvas == [width |-> width, height |-> height]

Init ==
    /\ nodes = SmallNodes
    /\ links = SmallLinks
    /\ canvas = CodeCanvas
    /\ Mounted

Next ==
    \/ Draw
    \/ \E i \in DOMAIN nodes : NodeMouseEnter(i)
    \/ \E i \in DOMAIN nodes : NodeMouseLeave(i)
    \/ \E i \in DOMAIN nodes : NodeClick(i)
    \/ \E j \in DOMAIN links : LinkMouseEnter(j)
    \/ \E j \in DOMAIN links : LinkMouseLeave(j)

Spec == Init /\ [][Next]_vars

\* The colour scale applied to a node of any risk score.
InitColor ==
    /\ \E s \in (0 - ScoreBelow) .. ScoreMax : nodes = << N(0, 0, s) >>
    /\ links = << >>
    /\ canvas = CodeCanvas
    /\ Mounted

NextColor == Draw

SpecColor == InitColor /\ [][NextColor]_vars

\* The ribbons of the dataset's links carrying any positive values.
InitRibbon ==
    /\ nodes = SmallNodes
    /\ \E n \in 0 .. MaxLinks :
          \E vs \in [1 .. n -> LinkValues] :
              links = [j \in 1 .. n |-> [LinksAmong[j] EXCEPT !.value = vs[j]]]
    /\ canvas = CodeCanvas
    /\ Mounted

NextRibbon == Draw

SpecRibbon == InitRibbon /\ [][NextRibbon]_vars

\* Node sequences of any layers, with ids in input order or in reverse order.
InitLayout ==
    /\ \E n \in 0 .. MaxNodes :
          \E lay \in [1 .. n -> layerIndices] :
              \E rev \in BOOLEAN :
                  nodes = [i \in 1 .. n |->
                              N(IF rev THEN n - i ELSE i - 1, lay[i],
                                CodeNodes[i].riskScore)]
    /\ links = << >>
    /\ canvas = CodeCanvas
    /\ Mounted

NextLayout == Draw

SpecLayout == InitLayout /\ [][NextLayout]_vars

\* The dataset's nodes with ids in input order or in reverse order, and its
\* links with the endpoints of one link replaced by any ids, NumNodes being
\* the id of no node.
InitIds ==
    /\ \E rev \in BOOLEAN :
          nodes = [i \in 1 .. NumNodes |->
                      [SmallNodes[i] EXCEPT !.id = IF rev THEN NumNodes - i ELSE i - 1]]
    /\ \E n \in 1 .. MaxLinks :
          \E j \in 1 .. n :
              \E s, t \in 0 .. NumNodes :
                  links = [k \in 1 .. n |->
                              IF k = j THEN L(s, t, LinksAmong[k].value)
                              ELSE LinksAmong[k]]
    /\ canvas = CodeCanvas
    /\ Mounted

NextIds == Draw

SpecIds == InitIds /\ [][NextIds]_vars

\* The dataset drawn on canvases about as large as their margins.
InitCanvas ==
    /\ nodes = SmallNodes
    /\ links = SmallLinks
    /\ \E w \in (marginLeft + marginRight - CanvasSlack) ..
                  (marginLeft + marginRight + CanvasSlack) :
          \E h \in (marginTop + marginBottom - CanvasSlack) ..
                      (marginTop + marginBottom + CanvasSlack) :
              canvas = [width |-> w, height |-> h]
    /\ Mounted

NextCanvas == Draw

SpecCanvas == InitCanvas /\ [][NextCanvas]_vars

\* One usePrediction instance: overlapping calls, their responses in any
\* order, and reset.
NextPredict ==
    \/ \E animalData \in PredictInputs : predict(animalData)
    \/ \E k \in DOMAIN calls : \E response \in Responses : respond(k, response)
    \/ reset

SpecPredict == Init /\ [][NextPredict]_vars

\* One call of predictBatch.
NextBatch ==
    \/ \E input \in BatchInputs : predictBatch(input)
    \/ \E response \in Responses : batchRespond(response)

SpecBatch == Init /\ [][NextBatch]_vars

\* The predictions that the form and the cards report to App.
NextRecent == \E k \in 1 .. MaxConfidence : handlePredictionComplete(Prediction(k))

SpecRecent == Init /\ [][NextRecent]_vars

(***************************************************************************)
(* Properties                                                              *)
(***************************************************************************)
opacities(elems) == [k \in DOMAIN elems |-> elems[k].opacity]

\* C1: every node of risk score s (thousandths, also outside 0..1000) is
\* filled with exactly the band the comparisons s > 0.7, 0.5 < s <= 0.7,
\* 0.3 < s <= 0.5, 0.15 < s <= 0.3, s <= 0.15 name; every boundary value
\* belongs to the lower band and no score is left without a colour.
C1_Bands ==
    drawn =>
        \A i \in DOMAIN nodes :
            LET s == nodes[i].riskScore
                c == rects[i].fill
            IN  /\ (s > 700) <=> (c = VeryHigh)
                /\ (500 < s /\ s <= 700) <=> (c = High)
                /\ (300 < s /\ s <= 500) <=> (c = Medium)
                /\ (150 < s /\ s <= 300) <=> (c = Low)
                /\ (s <= 150) <=> (c = VeryLow)

C1_Witness ==
    /\ drawn
    /\ nodes[1].riskScore = 700
    /\ rects[1].fill = High

\* C2: a click on node X sets selectedNode to none when selectedNode is X
\* at the moment of the click and to X otherwise, whatever the handlers of
\* the last draw captured.
C2_ClickToggles ==
    [][\A i \in DOMAIN nodes :
          NodeClick(i) =>
              selectedNode' = IF selectedNode = nodes[i].id THEN None ELSE nodes[i].id]_vars

\* C3: after a pointer-enter on node X, from any state, hoveredNode is X,
\* the rectangle of X has opacity 1 and every other node rectangle 0.3.
C3_EnterEmphasis ==
    [][\A i \in DOMAIN nodes :
          NodeMouseEnter(i) =>
              /\ hoveredNode' = nodes[i].id
              /\ rects'[i].opacity = 100
              /\ \A k \in DOMAIN nodes \ {i} : rects'[k].opacity = 30]_vars

C3_Witness ==
    /\ lastEvent.type = "mouseenter"
    /\ lastEvent.hoveredBefore # None
    /\ lastEvent.hoveredBefore # hoveredNode
    /\ hoveredNode = nodes[lastEvent.target].id
    /\ rects[lastEvent.target].opacity = 100
    /\ \E k \in DOMAIN nodes :
          nodes[k].id = lastEvent.hoveredBefore /\ rects[k].opacity = 30

\* C4: after a pointer-leave on a node, from any state, hoveredNode is none
\* and every node rectangle has the opacity 0.85 it was first drawn with;
\* selectedNode is unchanged.
C4_LeaveRestores ==
    [][\A i \in DOMAIN nodes :
          NodeMouseLeave(i) =>
              /\ hoveredNode' = None
              /\ \A k \in DOMAIN nodes :
                    /\ rects'[k].opacity = 85
                    /\ rects'[k].opacity = drawNode(nodes[k], nodes).opacity
              /\ selectedNode' = selectedNode]_vars

C4_Witness ==
    /\ lastEvent.type = "mouseleave"
    /\ lastEvent.hoveredBefore # None
    /\ nodes[lastEvent.target].id # lastEvent.hoveredBefore
    /\ selectedNode # None
    /\ hoveredNode = None
    /\ \A k \in DOMAIN nodes : rects[k].opacity = 85

\* C5: a click on a node and the redraw its selection change triggers leave
\* the opacity of every node rectangle and of every ribbon, and hoveredNode,
\* as they were.
C5_SelectionKeepsOpacity ==
    [][((\E i \in DOMAIN nodes : NodeClick(i)) \/ (drawn /\ Draw)) =>
          /\ opacities(rects') = opacities(rects)
          /\ opacities(paths') = opacities(paths)
          /\ hoveredNode' = hoveredNode]_vars

\* C6: a pointer-enter (leave) on ribbon R sets the opacity of R to 0.6
\* (back to the 0.25 it was drawn with) and changes no other ribbon, no node
\* rectangle, and neither hoveredNode nor selectedNode; a pointer-enter or
\* leave on a node changes no ribbon.
C6_RibbonLocal ==
    [][/\ \A j \in DOMAIN links :
             (LinkMouseEnter(j) \/ LinkMouseLeave(j)) =>
                 /\ LinkMouseEnter(j) => paths'[j].opacity = 60
                 /\ LinkMouseLeave(j) =>
                       /\ paths'[j].opacity = 25
                       /\ paths'[j].opacity = drawLink(links[j], nodes, links).opacity
                 /\ \A k \in DOMAIN links \ {j} : paths'[k] = paths[k]
                 /\ paths'[j].d = paths[j].d /\ paths'[j].fill = paths[j].fill
                 /\ rects' = rects
                 /\ hoveredNode' = hoveredNode
                 /\ selectedNode' = selectedNode
       /\ \A i \in DOMAIN nodes :
             (NodeMouseEnter(i) \/ NodeMouseLeave(i)) => paths' = paths]_vars

C6_Witness ==
    /\ lastEvent.type = "linkenter"
    /\ paths[lastEvent.target].opacity = 60
    /\ \E k \in DOMAIN links : k # lastEvent.target /\ paths[k].opacity = 60
    /\ hoveredNode # None
    /\ \E i \in DOMAIN nodes : rects[i].opacity = 100

\* The thickness of link j of the dataset.
thickness(j) == linkHeight(links[j], links)

\* C7: every link of positive value has minThickness <= thickness <= maxThickness.
C7_ThicknessBounded ==
    drawn =>
        \A j \in DOMAIN links :
            links[j].value > 0 =>
                /\ RGe(thickness(j), RInt(2))
                /\ RGe(RInt(25), thickness(j))

C7_Witness ==
    /\ drawn
    /\ \E j, k \in DOMAIN links :
          thickness(j) = RInt(2) /\ links[j].value * 25 < links[k].value * 2
    /\ \E j \in DOMAIN links : thickness(j) = RInt(25)

\* C8: within one dataset a larger value never gets a thinner ribbon.
C8_ThicknessMonotonic ==
    drawn =>
        \A a, b \in DOMAIN links :
            links[a].value > links[b].value => RGe(thickness(a), thickness(b))

C8_Witness ==
    /\ drawn
    /\ \E a, b \in DOMAIN links :
          /\ links[a].value > links[b].value
          /\ RGt(thickness(a), thickness(b))
          /\ RGt(thickness(b), RInt(2))

\* C9: a link carrying the largest value of the dataset has thickness exactly
\* maxThickness, a link whose scaled thickness is below minThickness has
\* thickness exactly minThickness, and links of values 10 and 100 (100 being
\* the largest) have thicknesses 2.5 and 25, in ratio 10 / 100.
C9_ThicknessEnds ==
    drawn =>
        \A j \in DOMAIN links :
            LET largest == \A k \in DOMAIN links : links[k].value <= links[j].value
            IN  /\ largest => thickness(j) = RInt(25)
                /\ \A k \in DOMAIN links :
                      (links[k].value <= links[j].value
                          /\ 25 * links[k].value < 2 * links[j].value /\ largest)
                          => thickness(k) = RInt(2)
                /\ \A k \in DOMAIN links :
                      (largest /\ links[j].value = 100 /\ links[k].value = 10) =>
                          /\ thickness(k) = Rat(5, 2)
                          /\ RDiv(thickness(k), thickness(j)) = Rat(10, 100)

C9_Witness ==
    /\ drawn
    /\ Len(links) = 2
    /\ links[1].value = 10
    /\ links[2].value = 100
    /\ thickness(1) = Rat(5, 2)
    /\ thickness(2) = RInt(25)

\* C10: the two curves of every ribbon are offset vertically by the link's
\* thickness, at the source end and at the target end.
C10_PathEncodesThickness ==
    drawn =>
        \A j \in DOMAIN links :
            LET d == paths[j].d
            IN  /\ RSub(d[1].y, d[4].y) = thickness(j)
                /\ RSub(d[2].y, d[3].y) = thickness(j)

geometry(rs) ==
    [k \in DOMAIN rs |->
        [x |-> rs[k].x, y |-> rs[k].y, width |-> rs[k].width, height |-> rs[k].height]]

outlines(ps) == [k \in DOMAIN ps |-> ps[k].d]

nodeIds == {nodes[i].id : i \in DOMAIN nodes}

\* The node of an id.
nodeOfId(id) == nodes[CHOOSE i \in DOMAIN nodes : nodes[i].id = id]

\* The indices of the nodes of a layer.
members(l) == {i \in DOMAIN nodes : nodes[i].layer = l}

\* C11: every ribbon is filled with the band of the average of the risk
\* scores of the nodes whose ids are the link's source and target, also when
\* ids differ from positions in the node sequence.
C11_FillByIds ==
    drawn =>
        \A j \in DOMAIN paths :
            LET sum == nodeOfId(links[j].source).riskScore
                         + nodeOfId(links[j].target).riskScore
            IN  paths[j].fill =
                    IF sum > 1400 THEN VeryHigh
                    ELSE IF sum > 1000 THEN High
                    ELSE IF sum > 600 THEN Medium
                    ELSE IF sum > 300 THEN Low
                    ELSE VeryLow

\* C12: once the diagram is drawn, no hover, click or redraw changes the
\* x, y, width or height of a node or the outline of a ribbon.
C12_LayoutStable ==
    [][drawn =>
          /\ geometry(rects') = geometry(rects)
          /\ outlines(paths') = outlines(paths)]_vars

C12_Witness ==
    /\ lastEvent.type = "draw"
    /\ closureSelected # None
    /\ hoveredNode # None
    /\ Len(rects) = Len(nodes)
    /\ Len(paths) = Len(links)

\* C13: in a layer whose stack count * (nodeHeight + gap) - gap fits the
\* usable height, the vertical extents of two distinct nodes are disjoint.
C13_NoOverlap ==
    drawn =>
        \A l \in layerIndices :
            Cardinality(members(l)) * (45 + 15) - 15 <= canvas.height - 80 - 80 =>
                \A a, b \in members(l) :
                    a # b =>
                        \/ RGe(rects[a].y, RAdd(rects[b].y, rects[b].height))
                        \/ RGe(rects[b].y, RAdd(rects[a].y, rects[a].height))

C13_Witness ==
    /\ drawn
    /\ \E l \in layerIndices : Cardinality(members(l)) >= 3
    /\ \E i \in DOMAIN nodes : nodes[i].id # i - 1

\* C14: a link whose source or target id is the id of no node makes the
\* drawing fail with an error, and no path is appended for that link.
C14_DanglingFails ==
    lastEvent.type = "draw" =>
        \A j \in DOMAIN links :
            (links[j].source \notin nodeIds \/ links[j].target \notin nodeIds) =>
                /\ error # NoError
                /\ Len(paths) < j

C14_Witness ==
    /\ lastEvent.type = "draw"
    /\ Len(links) = 2
    /\ links[1].source \in nodeIds /\ links[1].target \in nodeIds
    /\ links[2].source \in nodeIds /\ links[2].target \notin nodeIds
    /\ error = TypeError
    /\ Len(paths) = 1

\* C15: on a canvas whose layerWidth or layerHeight is zero or negative the
\* drawing reports an error and emits no node rectangle and no ribbon.
C15_DegenerateCanvas ==
    (/\ lastEvent.type = "draw"
     /\ canvas.width - 150 - 200 <= 0 \/ canvas.height - 80 - 80 <= 0) =>
            /\ error # NoError
            /\ rects = << >>
            /\ paths = << >>

\* C16: every change of selectedNode passes the new value to the callback of
\* the surrounding UI, once, and no other step does.
C16_SelectionCallback ==
    [][/\ selectedNode' # selectedNode => emitted' = Append(emitted, selectedNode')
       /\ selectedNode' = selectedNode => emitted' = emitted]_vars

\* C17: a dataset without links, with or without nodes, is drawn without an
\* error: no ribbon, one rectangle per node.
C17_EmptyGraceful ==
    (lastEvent.type = "draw" /\ links = << >>) =>
        /\ error = NoError
        /\ drawn
        /\ paths = << >>
        /\ Len(rects) = Len(nodes)

C17_Witness ==
    /\ lastEvent.type = "draw"
    /\ nodes = << >>
    /\ links = << >>
    /\ error = NoError
    /\ rects = << >>
    /\ Len(legendRects) = 5

\* C18: in a dataset using the layers 0 .. L-1, every node has
\* x = margin.left + layer * (canvas.width - margin.left - margin.right) / (L - 1).
C18_LayerSpacing ==
    drawn =>
        LET used == {nodes[i].layer : i \in DOMAIN nodes}
            count == Cardinality(used)
        IN  (count >= 2 /\ used = 0 .. (count - 1)) =>
                \A i \in DOMAIN nodes :
                    rects[i].x =
                        RAdd(RInt(150),
                             RMul(RInt(nodes[i].layer),
                                  Rat(canvas.width - 150 - 200, count - 1)))

\* C19: the first node of every layer has
\* y = margin.top + (layerHeight - totalStackHeight) / 2 with
\* totalStackHeight = count * (nodeHeight + gap) - gap, and the free space
\* above the first node equals the free space below the last.
C19_Centred ==
    drawn =>
        \A l \in layerIndices :
            members(l) # {} =>
                LET count == Cardinality(members(l))
                    first == CHOOSE i \in members(l) : \A k \in members(l) : i <= k
                    last == CHOOSE i \in members(l) : \A k \in members(l) : k <= i
                    usable == canvas.height - 80 - 80
                IN  /\ rects[first].y =
                           RAdd(RInt(80), Rat(usable - (count * (45 + 15) - 15), 2))
                    /\ RSub(rects[first].y, RInt(80)) =
                           RSub(RInt(80 + usable), RAdd(rects[last].y, RInt(45)))

\* C20: two nodes of one layer are stacked in input order, the k-th of the
\* layer at startY + k * (nodeHeight + gap); exchanging two nodes of one
\* layer in the input exchanges their positions and moves no other node.
C20_StableGrouping ==
    drawn =>
        \A a, b \in DOMAIN nodes :
            (a # b /\ nodes[a].layer = nodes[b].layer) =>
                LET l == nodes[a].layer
                    k == Cardinality({i \in members(l) : i < a})
                    swapped == [nodes EXCEPT ![a] = nodes[b], ![b] = nodes[a]]
                    pos == nodePositions(swapped)
                    at(id) == [x |-> pos[id].x, y |-> pos[id].y,
                               width |-> pos[id].width, height |-> pos[id].height]
                IN  /\ (a < b) <=> RGt(rects[b].y, rects[a].y)
                    /\ rects[a].y =
                           RAdd(startY(SelectSeq(nodes, LAMBDA n : n.layer = l)),
                                RInt(k * (45 + 15)))
                    /\ at(nodes[a].id) = geometry(rects)[b]
                    /\ at(nodes[b].id) = geometry(rects)[a]
                    /\ \A c \in DOMAIN nodes \ {a, b} :
                          at(nodes[c].id) = geometry(rects)[c]

C20_Witness ==
    /\ drawn
    /\ \E a, b, c \in DOMAIN nodes :
          /\ a < b /\ b < c
          /\ nodes[a].layer = nodes[c].layer
          /\ nodes[b].layer # nodes[a].layer
          /\ nodes[a].id > nodes[c].id
          /\ RGt(rects[c].y, rects[a].y)

(***************************************************************************)
(* C21 .. C22: what is rendered as a function of the interaction state     *)
(***************************************************************************)
\* C21: in every state reached once the diagram is drawn, a hoveredNode of X
\* means that the rectangle of X is at opacity 1 and every other node
\* rectangle at 0.3, and no hoveredNode means that every node rectangle is at
\* 0.85.
C21_EmphasisFromState ==
    drawn =>
        /\ hoveredNode # None =>
              \A k \in DOMAIN nodes :
                  rects[k].opacity = IF nodes[k].id = hoveredNode THEN 100 ELSE 30
        /\ hoveredNode = None =>
              \A k \in DOMAIN nodes : rects[k].opacity = 85

\* C22: the legend swatches are rendered as the draw left them, whatever
\* pointer-enter and pointer-leave events the nodes have received.
C22_LegendUntouched ==
    drawn => legendRects = drawLegend

inFlight == \E k \in DOMAIN calls : calls[k].pending

\* C24: whatever the interleaving of calls of predict and of their
\* responses, loading is true in every state in which a call awaits its
\* response.
C24_LoadingWhileInFlight ==
    (~wasReset /\ inFlight) => loading

\* What call k stored: its result and its error.
stored(k) ==
    [result |-> IF succeeded(calls[k].response) THEN calls[k].response.body ELSE JsNull,
     error |-> calls[k].message]

bothCompleted == Len(calls) = 2 /\ ~inFlight /\ ~wasReset

looksReset ==
    /\ wasReset
    /\ ~loading
    /\ predictError = JsNull
    /\ result = JsNull

\* C25: once two calls of predict have both completed, in either order of
\* their responses, result and error are those of the second call; and the
\* response of a call that was in flight when reset was called leaves
\* loading, error and result as reset set them.
C25_LatestCallWins ==
    [][/\ bothCompleted' =>
             /\ result' = stored(2)'.result
             /\ predictError' = stored(2)'.error
       /\ (looksReset /\ inFlight /\ Len(calls') = Len(calls)) =>
             UNCHANGED <<loading, predictError, result>>]_vars

(***************************************************************************)
(* C26: useBatchPrediction                                                 *)
(***************************************************************************)
\* C26: predictBatch sends the requests of an array one at a time and in
\* input order; it returns, and stores in results, one entry per item in
\* input order, made of the fields of the item and of either prediction (the
\* request succeeded) or error (it failed); a failed item neither ends the
\* batch nor sets the error of the hook.  Any other input sends no request,
\* sets error, leaves results empty and returns null.  loading is false once
\* the call has returned.
C26_BatchEntries ==
    /\ (batchCall # "idle" /\ isArray(animalDataArray)) =>
          /\ Len(requests) <= Len(animalDataArray.items)
          /\ requests = SubSeq(animalDataArray.items, 1, Len(requests))
          /\ Len(requests) <= Len(responses) + 1
    /\ batchCall = "returned" =>
          /\ ~batchLoading
          /\ IF isArray(animalDataArray)
             THEN LET items == animalDataArray.items
                  IN  /\ batchReturned = JsArray(results)
                      /\ Len(results) = Len(items)
                      /\ requests = items
                      /\ batchError = JsNull
                      /\ \A i \in DOMAIN items :
                            /\ \A f \in DOMAIN items[i] : results[i][f] = items[i][f]
                            /\ IF succeeded(responses[i])
                               THEN /\ (DOMAIN results[i]) \ (DOMAIN items[i]) = {"prediction"}
                                    /\ results[i].prediction = responses[i].body
                               ELSE /\ (DOMAIN results[i]) \ (DOMAIN items[i]) = {"error"}
                                    /\ results[i].error.type = "string"
             ELSE /\ requests = << >>
                  /\ batchError.type = "string"
                  /\ results = << >>
                  /\ batchReturned = JsNull

C26_Witness ==
    /\ batchCall = "returned"
    /\ Len(results) = 2
    /\ ~succeeded(responses[1])
    /\ succeeded(responses[2])
    /\ "error" \in DOMAIN results[1]
    /\ "prediction" \in DOMAIN results[2]

(***************************************************************************)
(* C27: App.recentPredictions                                              *)
(***************************************************************************)
\* C27: recentPredictions never holds more than 5 entries; a call of
\* handlePredictionComplete puts the new prediction first, moves the
\* previous entries one place down in their order and drops the last one
\* only if the list already held 5.
C27_RecentCapped ==
    [][/\ Len(recentPredictions') <= 5
       /\ \A k \in 1 .. MaxConfidence :
             handlePredictionComplete(Prediction(k)) =>
                /\ recentPredictions'[1] = Prediction(k)
                /\ Len(recentPredictions') =
                       IF Len(recentPredictions) = 5 THEN 5 ELSE Len(recentPredictions) + 1
                /\ \A i \in 2 .. Len(recentPredictions') :
                       recentPredictions'[i] = recentPredictions[i - 1]]_vars

C27_Witness ==
    /\ completed > 5
    /\ Len(recentPredictions) = 5
    /\ recentPredictions[1] # recentPredictions[2]

====
